---- MODULE Spec2Model ----
(***************************************************************************)
(* Oscilloscopio Didattico: the cross-tab shared state (useBroadcastState),*)
(* the instructor and student pages and the measurement checker (doCheck), *)
(* in the JS version (osci.jsx) and, for the checker, also the TS version. *)
(*                                                                         *)
(* Numbers are JS numbers: a finite value is an exact rational n/d, and    *)
(* NaN and Infinity are values of their own.  Arithmetic is exact (real)   *)
(* arithmetic; floating-point rounding is not modelled.                    *)
(***************************************************************************)
EXTENDS Integers, Sequences, FiniteSets, TLC

VARIABLES
    phase,          \* per tab: "closed", "loaded" (first render done), "mounted" (effects run)
    route,          \* per tab: window.location.hash
    state,          \* per tab: the SharedSettings held by useBroadcastState
    view,           \* per tab: the ViewSettings held by useStudentView (StudentPage only)
    checkResult,    \* per tab: StudentPage's checkResult
    inbox,          \* per tab: BroadcastChannel messages queued for onmessage
    localStorage,   \* the origin's localStorage: key -> stored string
    nPublish,       \* history: number of publish calls
    nPosted,        \* history: number of postMessage calls
    lastPosted,     \* history: the last message handed to postMessage
    missed,         \* history: tabs that were between first render and effects during a publish
    nEdits,         \* history: number of student edits
    faults,         \* the browser calls that throw: "setItem", "postMessage"
    thrown,         \* the tabs in which an exception escaped a render
    ctx,            \* per tab: the drawing state of the canvas's 2D context
    surface,        \* per tab: what has been painted on the canvas since it was last cleared
    calls,          \* history: the last calls of waveformSample
    nDraws,         \* history: number of runs of the draw effect
    replaced        \* per tab: the snapshot object its last channel edit replaced, as it is now

vars == <<phase, route, state, view, checkResult, inbox, localStorage,
          nPublish, nPosted, lastPosted, missed, nEdits,
          faults, thrown, ctx, surface, calls, nDraws, replaced>>

\* the canvas and the sampler, which only ScopeCanvas touches
scopeVars == <<ctx, surface, calls, nDraws>>

-----------------------------------------------------------------------------
(* Bounds of the model *)

MaxPublish == 2
MaxEdits == 1
MaxDraws == 2

Tabs == {"A", "B"}

-----------------------------------------------------------------------------
(* JS numbers *)

Fin(n, d) == [k |-> "fin", n |-> n, d |-> d]
NaN == [k |-> "nan", n |-> 0, d |-> 1]
Infinity == [k |-> "inf", n |-> 1, d |-> 1]
Null == [k |-> "null", n |-> 0, d |-> 1]

isFinite(x) == x.k = "fin"

Abs(i) == IF i < 0 THEN -i ELSE i

\* a + b
Add(a, b) ==
    IF a.k = "fin" /\ b.k = "fin"
    THEN IF a.d = b.d THEN Fin(a.n + b.n, a.d)
                      ELSE Fin(a.n * b.d + b.n * a.d, a.d * b.d)
    ELSE IF a.k = "nan" \/ b.k = "nan" THEN NaN ELSE Infinity

\* -a (of a finite number)
Neg(a) == IF a.k = "fin" THEN Fin(-a.n, a.d) ELSE NaN

\* 2 * a
Twice(a) == IF a.k = "fin" THEN Fin(2 * a.n, a.d) ELSE a

\* a > 0
GtZero(a) == a.k = "inf" \/ (a.k = "fin" /\ a.n > 0)

\* 1 / a, used where a > 0
Recip(a) == IF a.k = "fin" THEN Fin(a.d, a.n) ELSE Fin(0, 1)

\* the guard constant 1e-9 of the relative error, as 1 / EpsInv
EpsInv == 1000000000

\* Math.abs(u - c) / (Math.abs(c) + 1e-9) <= tol, for finite u and c and
\* tol = tol[1] / tol[2].  With X = |u.n*c.d - c.n*u.d| the inequality is
\*   X * tol[2] * EpsInv <= tol[1] * u.d * (|c.n| * EpsInv + c.d),
\* that is (X * tol[2] - tol[1] * u.d * |c.n|) * EpsInv <= tol[1] * u.d * c.d,
\* which for integers is (and stays within TLC's 32-bit integers as)
\*   X * tol[2] - tol[1] * u.d * |c.n| <= (tol[1] * u.d * c.d) \div EpsInv.
RelErrWithin(u, c, tol) ==
    Abs(u.n * c.d - c.n * u.d) * tol[2] - tol[1] * u.d * Abs(c.n)
        <= (tol[1] * u.d * c.d) \div EpsInv

-----------------------------------------------------------------------------
(* Strings typed into a text field, as parseFloat reads them *)

EmptyStr == [t |-> "empty", v |-> NaN, tail |-> FALSE]        \* ""
TextStr == [t |-> "text", v |-> NaN, tail |-> FALSE]          \* "abc", "NaN"
InfStr == [t |-> "Infinity", v |-> Infinity, tail |-> FALSE]  \* "Infinity"
NumStr(x) == [t |-> "num", v |-> x, tail |-> FALSE]           \* "3.147"
NumTailStr(x) == [t |-> "num", v |-> x, tail |-> TRUE]        \* "3.147 V"

\* faulty variant: Number-like reading of the empty string as 0
parseFloat_EmptyIsZero(s) ==
    CASE s.t = "num" -> s.v
      [] s.t = "Infinity" -> Infinity
      [] s.t = "empty" -> [k |-> "fin", n |-> 0, d |-> 1]
      [] OTHER -> NaN

\* parseFloat: the longest numeric prefix, NaN when there is none
parseFloat(s) ==
    CASE s.t = "num" -> s.v
      [] s.t = "Infinity" -> Infinity
      [] OTHER -> NaN

\* String(x), what a student types to enter x exactly
String(x) ==
    CASE x.k = "fin" -> NumStr(x)
      [] x.k = "inf" -> InfStr
      [] OTHER -> TextStr

-----------------------------------------------------------------------------
(* The shared state and the student's view *)

CHANNEL_KEY == "oscSimState:v1"
VIEW_KEY == "oscSimView:v1"

ChannelIds == {1, 2, 3}
Fields == <<"vmax", "vmin", "vpp", "period", "freq">>

Channel(id, enabled, waveform, amplitude, frequency, dc, color) ==
    [id |-> id, enabled |-> enabled, waveform |-> waveform,
     amplitude |-> amplitude, frequency |-> frequency, phase |-> Fin(0, 1),
     dc |-> dc, color |-> color, noise |-> Fin(0, 1)]

defaultSharedState ==
    [locked |-> FALSE, difficulty |-> "base", showCorrect |-> FALSE,
     timeBase |-> Fin(1, 1000), sampleRate |-> Fin(20000, 1),
     durationDivs |-> 10, verticalDivs |-> 8,
     channels |-> <<
        Channel(1, TRUE, "sine", Fin(2, 1), Fin(1000, 1), Fin(0, 1), "#22c55e"),
        Channel(2, FALSE, "square", Fin(1, 1), Fin(500, 1), Fin(0, 1), "#3b82f6"),
        Channel(3, FALSE, "triangle", Fin(15, 10), Fin(200, 1), Fin(0, 1), "#ef4444") >>]

emptyMeasure ==
    [vmax |-> EmptyStr, vmin |-> EmptyStr, vpp |-> EmptyStr,
     period |-> EmptyStr, freq |-> EmptyStr]

defaultView ==
    [vPerDiv |-> Fin(1, 1), sPerDiv |-> Fin(1, 1000), vOffset |-> Fin(0, 1),
     tOffset |-> Fin(0, 1), name |-> "", surname |-> "", class |-> "", date |-> "",
     measures |-> [id \in ChannelIds |-> emptyMeasure]]

\* a tab's slot when the component holding it is not mounted
None == [none |-> TRUE]

\* the canvas of ScopeCanvas
width == 980
height == 520

\* the 2D context of a canvas nothing has drawn on; impl is the version of
\* ScopeCanvas the tab runs, fixed by its first render
freshCtx ==
    [impl |-> "none", fillStyle |-> "#000000", strokeStyle |-> "#000000",
     lineWidth |-> Fin(1, 1), lineDash |-> <<>>, lineJoin |-> "miter",
     lineCap |-> "butt"]

-----------------------------------------------------------------------------
(* The measurement checker *)

\* faulty variant: a voltage tolerance of 10%
tolV_TenPercent == <<1, 10>>

tolV == <<1, 20>>   \* 0.05
tolF == <<1, 50>>   \* 0.02

fieldTol(k) == IF k \in {"vmax", "vmin", "vpp"} THEN tolV ELSE tolF

\* faulty variant: vmin computed with the sign of vmax
correctOf_VminPlus(ch) ==
    LET freq == IF ch.waveform = "noise" THEN Fin(0, 1) ELSE ch.frequency
    IN [vmax |-> Add(ch.dc, ch.amplitude),
        vmin |-> Add(ch.dc, ch.amplitude),
        vpp |-> Twice(ch.amplitude),
        period |-> IF GtZero(freq) THEN Recip(freq) ELSE Infinity,
        freq |-> freq]

\* the reference values of one channel (every case of the switch computes the
\* same vmax, vmin, vpp; only freq of "noise" differs)
correctOf(ch) ==
    LET freq == IF ch.waveform = "noise" THEN Fin(0, 1) ELSE ch.frequency
    IN [vmax |-> Add(ch.dc, ch.amplitude),
        vmin |-> Add(ch.dc, Neg(ch.amplitude)),
        vpp |-> Twice(ch.amplitude),
        period |-> IF GtZero(freq) THEN Recip(freq) ELSE Infinity,
        freq |-> freq]

\* map[ch.id] = {...} for every channel, a later channel overwriting an
\* earlier one of the same id
computeCorrect(shared) ==
    LET chs == shared.channels
        last(id) == CHOOSE i \in DOMAIN chs :
                        /\ chs[i].id = id
                        /\ \A j \in DOMAIN chs : chs[j].id = id => j <= i
    IN [id \in {chs[i].id : i \in DOMAIN chs} |-> correctOf(chs[last(id)])]

\* faulty variant: ok is overwritten by each field instead of only cleared
fieldStepJS_LastWins(user, corr, i, acc) ==
    LET k == Fields[i]
        u == parseFloat(user[k])
        c == corr[k]
    IN IF ~isFinite(u) \/ ~isFinite(c)
       THEN [ok |-> FALSE, comp |-> (k :> FALSE) @@ acc.comp]
       ELSE LET pass == RelErrWithin(u, c, fieldTol(k))
            IN [ok |-> pass, comp |-> (k :> pass) @@ acc.comp]

\* one pass of the loop over fields: [ok, comp] after field i
fieldStepJS(user, corr, i, acc) ==
    LET k == Fields[i]
        u == parseFloat(user[k])
        c == corr[k]
    IN IF ~isFinite(u) \/ ~isFinite(c)
       THEN [ok |-> FALSE, comp |-> (k :> FALSE) @@ acc.comp]
       ELSE LET pass == RelErrWithin(u, c, fieldTol(k))
            IN [ok |-> acc.ok /\ pass, comp |-> (k :> pass) @@ acc.comp]

RECURSIVE fieldsLoopJS(_, _, _, _)
fieldsLoopJS(user, corr, i, acc) ==
    IF i > Len(Fields) THEN acc
    ELSE fieldsLoopJS(user, corr, i + 1, fieldStepJS(user, corr, i, acc))

RECURSIVE channelsLoopJS(_, _, _, _, _)
channelsLoopJS(shared, measures, correctValues, i, res) ==
    IF i > Len(shared.channels) THEN res
    ELSE LET ch == shared.channels[i]
         IN IF ~ch.enabled
            THEN channelsLoopJS(shared, measures, correctValues, i + 1, res)
            ELSE LET r == fieldsLoopJS(measures[ch.id], correctValues[ch.id], 1,
                                       [ok |-> TRUE, comp |-> <<>>])
                 IN channelsLoopJS(shared, measures, correctValues, i + 1,
                        [ok |-> res.ok /\ r.ok,
                         perChannel |-> (ch.id :> r) @@ res.perChannel])

\* the value doCheck hands to setCheckResult (JS version)
doCheckJS(shared, v) ==
    channelsLoopJS(shared, v.measures, computeCorrect(shared), 1,
                   [ok |-> TRUE, perChannel |-> <<>>])

\* the TS version's reference values, written inline in doCheck
corrTS(ch) ==
    [vmax |-> Add(ch.amplitude, ch.dc),
     vmin |-> Add(Neg(ch.amplitude), ch.dc),
     vpp |-> Twice(ch.amplitude),
     period |-> IF GtZero(ch.frequency) THEN Recip(ch.frequency) ELSE Infinity,
     freq |-> ch.frequency]

\* faulty variant: a channel's errors are recorded, not counted
bumpErrors_Once(perChannel, id) ==
    (id :> [ok |-> TRUE, errors |-> 1]) @@ perChannel

\* (res.perChannel[id] = res.perChannel[id] || { ok: true, errors: 0 }).errors++
bumpErrors(perChannel, id) ==
    LET old == IF id \in DOMAIN perChannel THEN perChannel[id]
               ELSE [ok |-> TRUE, errors |-> 0]
    IN (id :> [old EXCEPT !.errors = @ + 1]) @@ perChannel

\* one pass of the loop over fields (TS version): res after field i of ch
fieldStepTS(ch, user, i, res) ==
    LET k == Fields[i]
        u == IF k \in DOMAIN user THEN parseFloat(user[k]) ELSE NaN
        c == corrTS(ch)[k]
    IN IF ~isFinite(u) \/ ~isFinite(c)
       THEN [ok |-> FALSE, perChannel |-> bumpErrors(res.perChannel, ch.id)]
       ELSE IF ~RelErrWithin(u, c, fieldTol(k))
            THEN [ok |-> FALSE, perChannel |-> bumpErrors(res.perChannel, ch.id)]
            ELSE res

RECURSIVE fieldsLoopTS(_, _, _, _)
fieldsLoopTS(ch, user, i, res) ==
    IF i > Len(Fields) THEN res
    ELSE fieldsLoopTS(ch, user, i + 1, fieldStepTS(ch, user, i, res))

RECURSIVE channelsLoopTS(_, _, _, _)
channelsLoopTS(shared, measures, i, res) ==
    IF i > Len(shared.channels) THEN res
    ELSE LET ch == shared.channels[i]
             user == IF ch.id \in DOMAIN measures THEN measures[ch.id] ELSE <<>>
         IN IF ~ch.enabled
            THEN channelsLoopTS(shared, measures, i + 1, res)
            ELSE channelsLoopTS(shared, measures, i + 1, fieldsLoopTS(ch, user, 1, res))

RECURSIVE sumErrors(_, _)
sumErrors(perChannel, ids) ==
    IF ids = {} THEN 0
    ELSE LET id == CHOOSE x \in ids : TRUE
         IN perChannel[id].errors + sumErrors(perChannel, ids \ {id})

Min(a, b) == IF a <= b THEN a ELSE b
Max(a, b) == IF a >= b THEN a ELSE b

\* the value doCheck hands to setCheckResult (TS version)
doCheckTS(shared, v) ==
    LET datiMancanti ==
            (IF v.name = "" THEN 1 ELSE 0) + (IF v.surname = "" THEN 1 ELSE 0)
            + (IF v.class = "" THEN 1 ELSE 0) + (IF v.date = "" THEN 1 ELSE 0)
        res == channelsLoopTS(shared, v.measures, 1, [ok |-> TRUE, perChannel |-> <<>>])
        totalErrors == sumErrors(res.perChannel, DOMAIN res.perChannel)
        perChannel == [id \in DOMAIN res.perChannel |->
                          [res.perChannel[id] EXCEPT !.ok = (res.perChannel[id].errors = 0)]]
        base == 10 - Min(5, (totalErrors + 1) \div 2)
        punteggio == IF datiMancanti > 0 THEN Max(0, base - 1) ELSE base
    IN [ok |-> res.ok, perChannel |-> perChannel, punteggio |-> punteggio,
        erroriCount |-> totalErrors, datiMancanti |-> datiMancanti]

-----------------------------------------------------------------------------
(* localStorage and JSON *)

\* JSON.stringify writes a NaN or an Infinity as null
jsonNum(x) == IF x.k \in {"nan", "inf"} THEN Null ELSE x

jsonValue(o) ==
    IF "channels" \in DOMAIN o
    THEN [o EXCEPT !.channels =
            [i \in DOMAIN @ |->
                [@[i] EXCEPT !.amplitude = jsonNum(@), !.frequency = jsonNum(@),
                             !.phase = jsonNum(@), !.dc = jsonNum(@),
                             !.noise = jsonNum(@)]]]
    ELSE [o EXCEPT !.vPerDiv = jsonNum(@), !.sPerDiv = jsonNum(@),
                   !.vOffset = jsonNum(@), !.tOffset = jsonNum(@)]

JSONstringify(o) == [raw |-> "json", val |-> jsonValue(o)]

\* a stored string that is not JSON: JSON.parse throws a SyntaxError
TextItem == [raw |-> "text", val |-> None]

\* the values of the JSON texts "null" and "{}"
JSNull == [null |-> TRUE]
EmptyObj == [empty |-> TRUE]

\* the stored string whose JSON value is v
JSONitem(v) == [raw |-> "json", val |-> v]

\* JSON.parse(raw), for a raw that parses
JSONparse(raw) == raw.val

\* getItem of a key never written
NoItem == [raw |-> "null", val |-> None]

setItem(ls, key, value) == [ls EXCEPT ![key] = value]

\* try { localStorage.setItem(key, value) } catch {}
trySetItem(ls, key, value) ==
    IF "setItem" \in faults THEN ls ELSE setItem(ls, key, value)

\* useBroadcastState's initial state: the parsed item, the default when
\* there is none or when JSON.parse throws
loadShared(ls) ==
    LET raw == ls[CHANNEL_KEY]
    IN IF raw = NoItem THEN defaultSharedState
       ELSE IF raw.raw = "text" THEN defaultSharedState
       ELSE JSONparse(raw)

\* useStudentView's initial state
loadView(ls) ==
    LET raw == ls[VIEW_KEY]
    IN IF raw = NoItem THEN defaultView
       ELSE IF raw.raw = "text" THEN defaultView
       ELSE JSONparse(raw)

\* faulty variant: the view saved under the shared state's key
saveView_SharedKey(ls, v) == trySetItem(ls, CHANNEL_KEY, JSONstringify(v))

\* faulty variant: the save effect missing
saveView_Missing(ls, v) == ls

\* useStudentView's effect
saveView(ls, v) == trySetItem(ls, VIEW_KEY, JSONstringify(v))

-----------------------------------------------------------------------------
(* Tabs: a tab is opened on one of the two pages and stays on it *)

DOCENTE == "#/docente"
STUDENTI == "#/studenti"
Routes == {DOCENTE, STUDENTI}

NoMsg == [type |-> "none", payload |-> None]

\* the first render of App: useState initialisers of useBroadcastState,
\* useHashRoute and, on the student page, useStudentView and checkResult
\* what the render of TeacherPage reads: shared.difficulty, shared.channels.map
renderTeacherThrows(shared) ==
    shared = JSNull \/ "channels" \notin DOMAIN shared

\* what the render of StudentPage reads: computeCorrect(shared),
\* view.vPerDiv, view.measures[id] and, in MeasureCard, values.vmax
renderStudentThrows(shared, v) ==
    \/ shared = JSNull \/ "channels" \notin DOMAIN shared
    \/ v = JSNull \/ "measures" \notin DOMAIN v

\* the TS version's StudentPage reads view.measures behind a fallback
renderStudentThrowsTS(shared, v) ==
    \/ shared = JSNull \/ "channels" \notin DOMAIN shared
    \/ v = JSNull

Open(t, r) ==
    LET shared == loadShared(localStorage)
        v == IF r = STUDENTI THEN loadView(localStorage) ELSE None
        threw == IF r = STUDENTI THEN renderStudentThrows(shared, v)
                 ELSE renderTeacherThrows(shared)
    IN /\ phase[t] = "closed"
       /\ phase' = [phase EXCEPT ![t] = IF threw THEN "crashed" ELSE "loaded"]
       /\ thrown' = IF threw THEN thrown \cup {t} ELSE thrown
       /\ route' = [route EXCEPT ![t] = r]
       /\ state' = [state EXCEPT ![t] = shared]
       /\ view' = [view EXCEPT ![t] = v]
       /\ checkResult' = [checkResult EXCEPT ![t] = None]
       /\ UNCHANGED <<inbox, localStorage, nPublish, nPosted, lastPosted, missed, nEdits>>
       /\ UNCHANGED <<faults, scopeVars, replaced>>

\* the effects of the first render: the student view is saved, the
\* BroadcastChannel is opened and its onmessage installed
Mount(t) ==
    /\ phase[t] = "loaded"
    /\ phase' = [phase EXCEPT ![t] = "mounted"]
    /\ localStorage' = IF view[t] # None THEN saveView(localStorage, view[t])
                       ELSE localStorage
    /\ UNCHANGED <<route, state, view, checkResult, inbox,
                   nPublish, nPosted, lastPosted, missed, nEdits>>
    /\ UNCHANGED <<faults, thrown, scopeVars, replaced>>

-----------------------------------------------------------------------------
(* useBroadcastState: publish and onmessage *)

\* faulty variant: only the edited part of the state is sent
SetState_Delta(payload) ==
    [type |-> "SET_STATE", payload |-> [channels |-> payload.channels]]

SetState(payload) == [type |-> "SET_STATE", payload |-> payload]

\* postMessage: one message, queued for every other tab whose channel is open
postMessage(inb, t, msg) ==
    [u \in Tabs |-> IF u # t /\ phase[u] = "mounted" THEN Append(inb[u], msg) ELSE inb[u]]

\* faulty variant: one try block around setItem and postMessage, so that a
\* throwing setItem skips the postMessage
tryPostMessage_SameTry(inb, t, msg) ==
    IF "setItem" \in faults \/ "postMessage" \in faults THEN inb
    ELSE postMessage(inb, t, msg)

\* try { bcRef.current?.postMessage(msg) } catch {}
tryPostMessage(inb, t, msg) ==
    IF "postMessage" \in faults THEN inb ELSE postMessage(inb, t, msg)

\* faulty variant: the type of the message is not looked at
onmessage_AnyType(st, t, msg) == [st EXCEPT ![t] = msg.payload]

\* bc.onmessage
onmessage(st, t, msg) ==
    IF msg.type = "SET_STATE" THEN [st EXCEPT ![t] = msg.payload] ELSE st

publish(t, nextState) ==
    /\ nPublish < MaxPublish
    /\ state' = [state EXCEPT ![t] = nextState]
    /\ localStorage' = trySetItem(localStorage, CHANNEL_KEY, JSONstringify(nextState))
    /\ inbox' = tryPostMessage(inbox, t, SetState(nextState))
    /\ nPublish' = nPublish + 1
    /\ nPosted' = nPosted + 1
    /\ lastPosted' = SetState(nextState)
    /\ missed' = missed \cup {u \in Tabs : phase[u] = "loaded"}
    /\ UNCHANGED <<phase, route, view, checkResult, nEdits>>
    /\ UNCHANGED <<faults, thrown, scopeVars>>

Receive(t) ==
    /\ phase[t] = "mounted"
    /\ inbox[t] # <<>>
    /\ state' = onmessage(state, t, Head(inbox[t]))
    /\ inbox' = [inbox EXCEPT ![t] = Tail(@)]
    /\ UNCHANGED <<phase, route, view, checkResult, localStorage,
                   nPublish, nPosted, lastPosted, missed, nEdits>>
    /\ UNCHANGED <<faults, thrown, scopeVars, replaced>>

-----------------------------------------------------------------------------
(* TeacherPage *)

Levels == {"base", "intermedio", "avanzato"}

\* the edits of a channel's controls: field and new value
ChannelEdits ==
    { <<"enabled", TRUE>>, <<"enabled", FALSE>>, <<"frequency", Fin(0, 1)>> }

\* what ChannelControls.set hands to onChange: { ...ch, [k]: v }
ChannelControlsSet(ch, k, v) == [ch EXCEPT ![k] = v]

\* the Math.random() draws of one randomize call, per channel
Draw(enabled, waveform, amplitude, frequency, dc) ==
    [enabled |-> enabled, waveform |-> waveform, amplitude |-> amplitude,
     frequency |-> frequency, phase |-> Fin(157, 100), dc |-> dc,
     noise |-> Fin(1, 100)]

RandomDraws ==
    { << Draw(TRUE, "saw", Fin(250, 100), Fin(50, 1), Fin(-50, 100)),
         Draw(TRUE, "am", Fin(100, 100), Fin(1000, 1), Fin(0, 100)),
         Draw(FALSE, "fm", Fin(450, 100), Fin(500, 1), Fin(100, 100)) >> }

\* faulty variant: the new snapshot is spread from the defaults
setChannelNext_FromDefaults(shared, idx, next) ==
    [defaultSharedState EXCEPT !.channels = [shared.channels EXCEPT ![idx] = next]]

\* faulty variant: the edited channel is appended instead of replacing its slot
setChannelNext_Append(shared, idx, next) ==
    [shared EXCEPT !.channels = Append(shared.channels, next)]

setChannelNext(shared, idx, next) ==
    LET channels == [shared.channels EXCEPT ![idx] = next]
    IN [shared EXCEPT !.channels = channels]

\* faulty variant: the channel is assigned in the array of the snapshot held
setChannelLeaves_InPlace(shared, idx, next) ==
    [shared EXCEPT !.channels = [@ EXCEPT ![idx] = next]]

\* what setChannel leaves of the snapshot it was called on: the array is
\* copied before channels[idx] is assigned, and the snapshot is spread
setChannelLeaves(shared, idx, next) == shared

randomizeNext(shared, level, draws) ==
    LET channels == [i \in DOMAIN shared.channels |->
            [shared.channels[i] EXCEPT
                !.enabled = draws[i].enabled, !.waveform = draws[i].waveform,
                !.amplitude = draws[i].amplitude, !.frequency = draws[i].frequency,
                !.phase = draws[i].phase, !.dc = draws[i].dc,
                !.noise = draws[i].noise]]
    IN [shared EXCEPT !.difficulty = level, !.channels = channels]

OnTeacherPage(t) == phase[t] = "mounted" /\ route[t] # STUDENTI

\* an input's onChange fires when its value changes
SetChannel(t, idx, k, v) ==
    /\ OnTeacherPage(t)
    /\ state[t].channels[idx][k] # v
    /\ publish(t, setChannelNext(state[t], idx,
                                 ChannelControlsSet(state[t].channels[idx], k, v)))
    /\ replaced' = [replaced EXCEPT ![t] =
                        setChannelLeaves(state[t], idx,
                                         ChannelControlsSet(state[t].channels[idx], k, v))]

SetDifficulty(t, level) ==
    /\ OnTeacherPage(t)
    /\ state[t].difficulty # level
    /\ publish(t, [state[t] EXCEPT !.difficulty = level])
    /\ UNCHANGED replaced

SetShowCorrect(t) ==
    /\ OnTeacherPage(t)
    /\ publish(t, [state[t] EXCEPT !.showCorrect = ~@])
    /\ UNCHANGED replaced

SetLocked(t) ==
    /\ OnTeacherPage(t)
    /\ publish(t, [state[t] EXCEPT !.locked = ~@])
    /\ UNCHANGED replaced

PublishNow(t) ==
    /\ OnTeacherPage(t)
    /\ publish(t, state[t])
    /\ UNCHANGED replaced

Randomize(t, level, draws) ==
    /\ OnTeacherPage(t)
    /\ publish(t, randomizeNext(state[t], level, draws))
    /\ UNCHANGED replaced

-----------------------------------------------------------------------------
(* StudentPage *)

OnStudentPage(t) == phase[t] = "mounted" /\ route[t] = STUDENTI

\* faulty variant: a change of the view clears the check result
setView_ClearsResult(t, next) ==
    /\ view' = [view EXCEPT ![t] = next]
    /\ localStorage' = saveView(localStorage, next)
    /\ nEdits' = nEdits + 1
    /\ checkResult' = [checkResult EXCEPT ![t] = None]
    /\ UNCHANGED <<phase, route, state, inbox,
                   nPublish, nPosted, lastPosted, missed>>
    /\ UNCHANGED <<faults, thrown, scopeVars, replaced>>

\* set(k, v) and setMeasure(chId, k, v), each followed by the save effect
setView(t, next) ==
    /\ view' = [view EXCEPT ![t] = next]
    /\ localStorage' = saveView(localStorage, next)
    /\ nEdits' = nEdits + 1
    /\ UNCHANGED <<phase, route, state, checkResult, inbox,
                   nPublish, nPosted, lastPosted, missed>>
    /\ UNCHANGED <<faults, thrown, scopeVars, replaced>>

SetViewField(t, k, v) ==
    /\ OnStudentPage(t)
    /\ nEdits < MaxEdits
    /\ view[t][k] # v
    /\ setView(t, [view[t] EXCEPT ![k] = v])

SetMeasure(t, chId, k, v) ==
    /\ OnStudentPage(t)
    /\ nEdits < MaxEdits
    /\ view[t].measures[chId][k] # v
    /\ setView(t, [view[t] EXCEPT !.measures =
                      [@ EXCEPT ![chId] = [@ EXCEPT ![k] = v]]])

\* the verdict in the render of StudentPage: shown with the button when
\* shared.showCorrect and a result is stored
verdictShown(shared, result) ==
    IF shared.showCorrect /\ result # None
    THEN [ok |-> result.ok,
          perChannel |-> [id \in DOMAIN result.perChannel |-> result.perChannel[id].ok]]
    ELSE None

\* the "Verifica con tolleranza" button, rendered when shared.showCorrect
DoCheck(t) ==
    /\ OnStudentPage(t)
    /\ state[t].showCorrect
    /\ checkResult' = [checkResult EXCEPT ![t] = doCheckJS(state[t], view[t])]
    /\ UNCHANGED <<phase, route, state, view, inbox, localStorage,
                   nPublish, nPosted, lastPosted, missed, nEdits>>
    /\ UNCHANGED <<faults, thrown, scopeVars, replaced>>

ViewEdits ==
    { <<"tOffset", NaN>>, <<"name", "Ada">> }

MeasureEdits ==
    { <<1, "vmax", NumStr(Fin(2, 1))>>, <<2, "freq", TextStr>> }

-----------------------------------------------------------------------------
(* The application: any number of steps of the tabs *)

Init ==
    /\ phase = [t \in Tabs |-> "closed"]
    /\ route = [t \in Tabs |-> DOCENTE]
    /\ state = [t \in Tabs |-> None]
    /\ view = [t \in Tabs |-> None]
    /\ checkResult = [t \in Tabs |-> None]
    /\ inbox = [t \in Tabs |-> <<>>]
    /\ localStorage = [key \in {CHANNEL_KEY, VIEW_KEY} |-> NoItem]
    /\ nPublish = 0
    /\ nPosted = 0
    /\ lastPosted = NoMsg
    /\ missed = {}
    /\ nEdits = 0
    /\ faults = {}
    /\ thrown = {}
    /\ ctx = [t \in Tabs |-> freshCtx]
    /\ surface = [t \in Tabs |-> <<>>]
    /\ calls = <<>>
    /\ nDraws = 0
    /\ replaced = [t \in Tabs |-> None]

Next ==
    \E t \in Tabs :
        \/ \E r \in Routes : Open(t, r)
        \/ Mount(t)
        \/ Receive(t)
        \/ \E idx \in 1..3 : \E e \in ChannelEdits : SetChannel(t, idx, e[1], e[2])
        \/ \E level \in Levels : SetDifficulty(t, level)
        \/ SetShowCorrect(t)
        \/ SetLocked(t)
        \/ PublishNow(t)
        \/ \E level \in Levels : \E draws \in RandomDraws : Randomize(t, level, draws)
        \/ \E e \in ViewEdits : SetViewField(t, e[1], e[2])
        \/ \E e \in MeasureEdits : SetMeasure(t, e[1], e[2], e[3])
        \/ DoCheck(t)

Spec == Init /\ [][Next]_vars

-----------------------------------------------------------------------------
(* The checker on its own: a student tab holding one of a set of published *)
(* settings and of typed measurements, one more entry typed, then doCheck  *)
(* (JS version) or its TS version                                          *)

\* the TS version's button is always rendered
DoCheckTS(t) ==
    /\ OnStudentPage(t)
    /\ checkResult' = [checkResult EXCEPT ![t] = doCheckTS(state[t], view[t])]
    /\ UNCHANGED <<phase, route, state, view, inbox, localStorage,
                   nPublish, nPosted, lastPosted, missed, nEdits>>
    /\ UNCHANGED <<faults, thrown, scopeVars, replaced>>

withChannel(ch, enabled, waveform, amplitude, frequency, dc) ==
    [ch EXCEPT !.enabled = enabled, !.waveform = waveform, !.amplitude = amplitude,
               !.frequency = frequency, !.dc = dc]

\* settings an instructor can have published with the channel controls
CheckChannels ==
    LET d == defaultSharedState.channels
    IN << { withChannel(d[1], TRUE, "sine", Fin(2, 1), Fin(1000, 1), Fin(1, 1)),
            withChannel(d[1], TRUE, "sine", Fin(2, 1), Fin(0, 1), Fin(0, 1)) },
          { d[2],
            withChannel(d[2], TRUE, "square", Fin(-1, 1), Fin(500, 1), Fin(1, 1)) },
          { d[3],
            withChannel(d[3], TRUE, "noise", Fin(15, 10), Fin(200, 1), Fin(0, 1)) } >>

CheckShareds ==
    { [defaultSharedState EXCEPT !.showCorrect = TRUE, !.channels = <<c1, c2, c3>>] :
        c1 \in CheckChannels[1], c2 \in CheckChannels[2], c3 \in CheckChannels[3] }

FieldSet == {Fields[i] : i \in DOMAIN Fields}

\* the reference values of the checker's contract: vmax = dc + amplitude,
\* vmin = dc - amplitude, vpp = 2 * amplitude, freq = frequency (0 for
\* "noise" where noiseZero), period = 1 / freq, Infinity when freq is 0
referenceOf(ch, noiseZero) ==
    LET freq == IF noiseZero /\ ch.waveform = "noise" THEN Fin(0, 1) ELSE ch.frequency
    IN [vmax |-> Add(ch.dc, ch.amplitude),
        vmin |-> Add(ch.dc, Neg(ch.amplitude)),
        vpp |-> Twice(ch.amplitude),
        freq |-> freq,
        period |-> IF GtZero(freq) THEN Recip(freq) ELSE Infinity]

channelOf(shared, id) ==
    shared.channels[CHOOSE i \in DOMAIN shared.channels : shared.channels[i].id = id]

\* every field of every channel left empty, or every field holding the
\* reference value typed exactly
exactMeasures(shared) ==
    [id \in ChannelIds |->
        [k \in FieldSet |-> String(referenceOf(channelOf(shared, id), TRUE)[k])]]

CheckViews(shared) ==
    { defaultView, [defaultView EXCEPT !.measures = exactMeasures(shared)] }

\* c scaled by pm / 1000
Scaled(c, pm) == IF isFinite(c) THEN Fin(c.n * pm, c.d * 1000) ELSE c

\* entries a student can type into the field whose reference value is c
CheckEntries(c) ==
    { TextStr, InfStr, NumTailStr(Scaled(c, 1000)),
      String(Scaled(c, 1049)), String(Scaled(c, 1051)),
      String(Scaled(c, 1020)), String(Scaled(c, 1021)) }

InitCheck ==
    /\ phase = [t \in Tabs |-> IF t = "A" THEN "mounted" ELSE "closed"]
    /\ route = [t \in Tabs |-> IF t = "A" THEN STUDENTI ELSE DOCENTE]
    /\ \E shared \in CheckShareds : \E v \in CheckViews(shared) :
          /\ state = [t \in Tabs |-> IF t = "A" THEN shared ELSE None]
          /\ view = [t \in Tabs |-> IF t = "A" THEN v ELSE None]
          /\ localStorage = (CHANNEL_KEY :> JSONstringify(shared))
                            @@ (VIEW_KEY :> JSONstringify(v))
    /\ checkResult = [t \in Tabs |-> None]
    /\ inbox = [t \in Tabs |-> <<>>]
    /\ nPublish = 0
    /\ nPosted = 0
    /\ lastPosted = NoMsg
    /\ missed = {}
    /\ nEdits = 0
    /\ faults = {}
    /\ thrown = {}
    /\ ctx = [t \in Tabs |-> freshCtx]
    /\ surface = [t \in Tabs |-> <<>>]
    /\ calls = <<>>
    /\ nDraws = 0
    /\ replaced = [t \in Tabs |-> None]

\* the student types one more entry before checking
TypeEntry ==
    /\ checkResult["A"] = None
    /\ \E id \in ChannelIds : \E k \in FieldSet :
          \E v \in CheckEntries(referenceOf(channelOf(state["A"], id), TRUE)[k]) :
              SetMeasure("A", id, k, v)

RunCheckJS == checkResult["A"] = None /\ DoCheck("A")

RunCheckTS == checkResult["A"] = None /\ DoCheckTS("A")

NextCheck == TypeEntry \/ RunCheckJS \/ RunCheckTS

SpecCheck == InitCheck /\ [][NextCheck]_vars

-----------------------------------------------------------------------------
(* waveformSample.  The value of a trigonometric expression is kept as the *)
(* expression itself, so that two values are equal exactly when they come  *)
(* from the same arguments; Math.random() is a stream of draws, the k-th   *)
(* draw of stream s being the value <<s, k>>.                              *)

\* a * num / den
Times(a, num, den) == IF a.k = "fin" THEN Fin(a.n * num, a.d * den) ELSE a

Waveforms ==
    {"sine", "square", "triangle", "saw", "rectified", "am", "fm", "noise", "sum2"}

\* Math.random(): the k-th draw of stream s
random(s, k) == <<s, k>>

\* randn(): Box-Muller on two draws (the draws are taken to be nonzero)
randn(s, k) == [u |-> random(s, k), v |-> random(s, k + 1)]

\* let noiseStd = noise; += 0.02 * amplitude (intermedio), 0.05 * amplitude (avanzato)
noiseStdOf(p) ==
    LET n1 == IF p.difficulty = "intermedio"
              THEN Add(p.noise, Times(p.amplitude, 2, 100)) ELSE p.noise
    IN IF p.difficulty = "avanzato" THEN Add(n1, Times(p.amplitude, 5, 100)) ELSE n1

\* waveformSample(type, t, p) reading Math.random() from position k of
\* stream s: the value returned and the number of draws consumed
waveformSample(type, t, p, s, k) ==
    LET shape == IF type \in Waveforms THEN type ELSE "sine"
        y == IF shape = "noise"
             THEN [shape |-> "noise", amplitude |-> p.amplitude, draw |-> random(s, k)]
             ELSE [shape |-> shape, amplitude |-> p.amplitude,
                   frequency |-> p.frequency, phase |-> p.phase, t |-> t]
        k1 == IF shape = "noise" THEN k + 1 ELSE k
        noiseStd == noiseStdOf(p)
        added == GtZero(noiseStd)
    IN [value |-> [y |-> y, dc |-> p.dc,
                   noise |-> IF added THEN [std |-> noiseStd, randn |-> randn(s, k1)]
                             ELSE [std |-> Fin(0, 1), randn |-> None]],
        draws |-> (k1 - k) + (IF added THEN 2 ELSE 0)]

-----------------------------------------------------------------------------
(* Claims about the shared state, checked under Spec *)

Quiescent == \A t \in Tabs : inbox[t] = <<>>

\* tabs that are open and were open, with their handler installed, during
\* every publish so far
Listening(t) == phase[t] = "mounted" /\ t \notin missed

\* C1: once every sent message has been delivered, every open tab's
\* SharedSettings equals the most recently published snapshot, whatever the
\* interleaving of publish calls and SET_STATE deliveries.
C1_LastWriteWins ==
    (nPublish > 0 /\ Quiescent) =>
        \A t \in Tabs : Listening(t) => state[t] = lastPosted.payload

SharedKeys == DOMAIN defaultSharedState
ChannelKeys == DOMAIN defaultSharedState.channels[1]
ViewKeys == DOMAIN defaultView

\* a full SharedSettings snapshot: every field, and three full channels
FullSnapshot(x) ==
    /\ DOMAIN x = SharedKeys
    /\ DOMAIN x.channels = 1..3
    /\ \A i \in 1..3 : DOMAIN x.channels[i] = ChannelKeys

\* C2: every instructor mutation of SharedSettings goes through publish, and
\* each publish call sets the local state, writes the same full snapshot to
\* localStorage under CHANNEL_KEY and posts exactly one SET_STATE message
\* whose payload is that full snapshot.
C2_PublishEffects ==
    [][ /\ \A t \in Tabs :
              (phase[t] = "mounted" /\ state'[t] # state[t] /\ inbox'[t] = inbox[t])
                  => nPublish' = nPublish + 1
        /\ nPublish' = nPublish + 1 =>
              \E t \in Tabs :
                  /\ OnTeacherPage(t)
                  /\ FullSnapshot(state'[t])
                  /\ localStorage'[CHANNEL_KEY] = JSONstringify(state'[t])
                  /\ nPosted' = nPosted + 1
                  /\ lastPosted' = [type |-> "SET_STATE", payload |-> state'[t]]
                  /\ inbox'[t] = inbox[t]
                  /\ \A u \in Tabs \ {t} :
                        inbox'[u] = IF phase[u] = "mounted"
                                    THEN Append(inbox[u], lastPosted')
                                    ELSE inbox[u] ]_vars

\* a publish has reached another tab's queue and the store
C2_Witness ==
    /\ nPublish = 2
    /\ \E t \in Tabs : Len(inbox[t]) = 2 /\ inbox[t][2] = lastPosted
    /\ localStorage[CHANNEL_KEY] = JSONstringify(lastPosted.payload)

\* C3: no action of the student page (an edit of a scale, an offset, an
\* identity field or a measurement, or a check) changes any tab's
\* SharedSettings, writes CHANNEL_KEY or posts a message.
C3_StudentReadsOnly ==
    [][ \A t \in Tabs :
            (OnStudentPage(t) /\ (view'[t] # view[t] \/ checkResult'[t] # checkResult[t]))
                => /\ state' = state
                   /\ localStorage'[CHANNEL_KEY] = localStorage[CHANNEL_KEY]
                   /\ nPosted' = nPosted
                   /\ inbox' = inbox ]_vars

\* a student has edited the view and run the check
C3_Witness ==
    \E t \in Tabs :
        /\ OnStudentPage(t)
        /\ view[t] # defaultView
        /\ checkResult[t] # None

\* nothing of a ViewSettings in x
NoViewContent(x) == DOMAIN x \cap ViewKeys = {}

\* C4: after every change of the student view the value stored under
\* VIEW_KEY is the current view, and no message sent and no value written
\* under CHANNEL_KEY contains ViewSettings content.
C4_ViewStaysLocal ==
    /\ [][ \A t \in Tabs :
              (phase'[t] = "mounted" /\ view'[t] # None /\ view'[t] # view[t])
                  => localStorage'[VIEW_KEY] = JSONstringify(view'[t]) ]_vars
    /\ [](/\ lastPosted # NoMsg => NoViewContent(lastPosted.payload)
          /\ \A t \in Tabs : \A i \in DOMAIN inbox[t] : NoViewContent(inbox[t][i].payload)
          /\ localStorage[CHANNEL_KEY] # NoItem =>
                 /\ localStorage[CHANNEL_KEY].raw = "json"
                 /\ NoViewContent(localStorage[CHANNEL_KEY].val))

\* a student's edited view is stored while snapshots are being published
C4_Witness ==
    \E t \in Tabs :
        /\ OnStudentPage(t)
        /\ view[t] # defaultView
        /\ localStorage[VIEW_KEY] = JSONstringify(view[t])
        /\ inbox[t] # <<>>

-----------------------------------------------------------------------------
(* Claims about the checker, checked under SpecCheck *)

Result == checkResult["A"]
IsJS == Result # None /\ "punteggio" \notin DOMAIN Result
IsTS == Result # None /\ "punteggio" \in DOMAIN Result

EnabledChannels == {i \in 1..3 : state["A"].channels[i].enabled}
DisabledChannels == {i \in 1..3 : ~state["A"].channels[i].enabled}
EnabledIds == {state["A"].channels[i].id : i \in EnabledChannels}

Entry(id, k) == view["A"].measures[id][k]

IsVoltage(k) == k \in {"vmax", "vmin", "vpp"}

\* |u - c| / (|c| + 1e-9) is at most 5% (a voltage field) or 2% (a time or
\* frequency field)
WithinTolerance(u, c, k) ==
    LET den == IF IsVoltage(k) THEN 20 ELSE 50
    IN Abs(u.n * c.d - c.n * u.d) * den - u.d * Abs(c.n) <= (u.d * c.d) \div 1000000000

\* the entry reads as a finite number: it is, or starts with, a numeral
Numeric(entry) == entry.t = "num"

\* the entry is numeric and within tolerance of the reference value c
FieldOK(entry, c, k) ==
    Numeric(entry) /\ isFinite(c) /\ WithinTolerance(entry.v, c, k)

\* the fields of channel i that fail, against the references of the JS
\* version (noiseZero) or of the TS version
FailedFields(i, noiseZero) ==
    LET ch == state["A"].channels[i]
    IN {k \in FieldSet : ~FieldOK(Entry(ch.id, k), referenceOf(ch, noiseZero)[k], k)}

\* what the TS result records of channel id: its error count, 0 without an entry
ErrorsTS(id) == IF id \in DOMAIN Result.perChannel THEN Result.perChannel[id].errors ELSE 0

\* the student's view with the entries of the disabled channels erased
DisabledBlanked ==
    [view["A"] EXCEPT !.measures =
        [id \in DOMAIN @ |->
            IF id \in EnabledIds THEN @[id] ELSE emptyMeasure]]

C6_EntryPerEnabledChannel ==
    /\ IsJS =>
        /\ DOMAIN Result.perChannel = EnabledIds
        /\ \A i \in EnabledChannels :
              LET r == Result.perChannel[state["A"].channels[i].id]
              IN /\ {k \in FieldSet : ~r.comp[k]} = FailedFields(i, TRUE)
                 /\ r.ok <=> (FailedFields(i, TRUE) = {})
    /\ IsTS =>
        /\ DOMAIN Result.perChannel = EnabledIds
        /\ \A i \in EnabledChannels :
              LET r == Result.perChannel[state["A"].channels[i].id]
              IN /\ r.errors = Cardinality(FailedFields(i, FALSE))
                 /\ r.ok <=> (r.errors = 0)

\* every field of channel i holds the contract's reference value, typed exactly
TypedExactly(i) ==
    LET ch == state["A"].channels[i]
    IN \A k \in FieldSet : Entry(ch.id, k) = String(referenceOf(ch, TRUE)[k])

Periodic(i) ==
    LET ch == state["A"].channels[i]
    IN GtZero(ch.frequency) /\ ch.waveform # "noise"

\* C7: for every enabled channel with frequency > 0 whose waveform is not
\* noise, entering exactly the reference values (vmax = dc + amplitude,
\* vmin = dc - amplitude, vpp = 2 * amplitude, freq = frequency,
\* period = 1 / frequency) makes that channel pass.
C7_RoundTrip ==
    \A i \in EnabledChannels :
        (Result # None /\ Periodic(i) /\ TypedExactly(i)) =>
            LET id == state["A"].channels[i].id
            IN /\ IsJS => id \in DOMAIN Result.perChannel /\ Result.perChannel[id].ok
               /\ IsTS => ErrorsTS(id) = 0

\* a periodic channel of nonzero amplitude and dc passes on its exact values
\* while another channel fails
C7_Witness ==
    /\ IsJS
    /\ ~Result.ok
    /\ \E i \in EnabledChannels :
          /\ Periodic(i) /\ TypedExactly(i)
          /\ state["A"].channels[i].dc.n # 0
          /\ Result.perChannel[state["A"].channels[i].id].ok

\* the other four fields of channel i pass against the TS references
OthersPassTS(i, k) == FailedFields(i, FALSE) \subseteq {k}

\* C8: a voltage field passes when the entry is 4.9% above the reference and
\* fails when it is 5.1% above; a time or frequency field passes only when
\* |user - ref| / (|ref| + 1e-9) is at most 2%.
C8_ToleranceBoundary ==
    \A i \in EnabledChannels : \A k \in FieldSet :
        LET ch == state["A"].channels[i]
            e == Entry(ch.id, k)
        IN /\ IsJS =>
                LET c == referenceOf(ch, TRUE)[k]
                    pass == Result.perChannel[ch.id].comp[k]
                IN /\ (IsVoltage(k) /\ e = String(Scaled(c, 1049))) => pass
                   /\ (IsVoltage(k) /\ e = String(Scaled(c, 1051)) /\ c.n # 0) => ~pass
                   /\ (~IsVoltage(k) /\ pass) =>
                          Numeric(e) /\ isFinite(c) /\ WithinTolerance(e.v, c, k)
           /\ (IsTS /\ OthersPassTS(i, k)) =>
                LET c == referenceOf(ch, FALSE)[k]
                    pass == ErrorsTS(ch.id) = 0
                IN /\ (IsVoltage(k) /\ e = String(Scaled(c, 1049))) => pass
                   /\ (IsVoltage(k) /\ e = String(Scaled(c, 1051)) /\ c.n # 0) => ~pass
                   /\ (~IsVoltage(k) /\ pass) =>
                          Numeric(e) /\ isFinite(c) /\ WithinTolerance(e.v, c, k)

\* an entry 5.1% above a nonzero reference voltage fails, alone in its channel
C8_Witness ==
    /\ IsJS
    /\ \E i \in EnabledChannels : \E k \in FieldSet :
          LET ch == state["A"].channels[i]
              c == referenceOf(ch, TRUE)[k]
          IN /\ IsVoltage(k) /\ c.n # 0
             /\ Entry(ch.id, k) = String(Scaled(c, 1051))
             /\ FailedFields(i, TRUE) = {k}
             /\ ~Result.perChannel[ch.id].comp[k]

C10_InfinitePeriodMatches ==
    \A i \in EnabledChannels :
        LET ch == state["A"].channels[i]
            e == Entry(ch.id, "period")
        IN (Result # None /\ ch.frequency = Fin(0, 1)) =>
              /\ referenceOf(ch, TRUE).period = Infinity
              /\ IsJS => (Result.perChannel[ch.id].comp["period"] <=> (e = InfStr))
              /\ (IsTS /\ OthersPassTS(i, "period")) =>
                    ((ErrorsTS(ch.id) = 0) <=> (e = InfStr))

-----------------------------------------------------------------------------
(* Further claims about the checker, checked under SpecCheck *)

\* C11: for an enabled channel whose waveform is noise the checker's
\* reference freq is 0 whatever the configured frequency, and it is the
\* configured frequency for every other waveform: the freq field is judged
\* against that value.
C11_NoiseReferenceFreq ==
    \A i \in EnabledChannels :
        LET ch == state["A"].channels[i]
            expected == IF ch.waveform = "noise" THEN Fin(0, 1) ELSE ch.frequency
        IN /\ IsJS => (Result.perChannel[ch.id].comp["freq"]
                          <=> FieldOK(Entry(ch.id, "freq"), expected, "freq"))
           /\ IsTS => ErrorsTS(ch.id) =
                          Cardinality({k \in FieldSet \ {"freq"} :
                                          ~FieldOK(Entry(ch.id, k), referenceOf(ch, TRUE)[k], k)})
                          + (IF FieldOK(Entry(ch.id, "freq"), expected, "freq") THEN 0 ELSE 1)

-----------------------------------------------------------------------------
(* Further claims about the shared state, checked under Spec *)

\* C14: in every reachable state of every tab the channels of the shared
\* state are exactly 3, with ids 1, 2, 3 in that order.
C14_ThreeChannelsInOrder ==
    \A t \in Tabs :
        state[t] # None =>
            /\ DOMAIN state[t].channels = 1..3
            /\ \A i \in 1..3 : state[t].channels[i].id = i

\* both tabs hold a state that went through randomize and a channel edit,
\* one of them having received it
C14_Witness ==
    /\ nPublish = 2
    /\ \A t \in Tabs : phase[t] = "mounted" /\ inbox[t] = <<>>
    /\ state["A"] = state["B"]
    /\ state["A"].channels[1].waveform = "saw"
    /\ ~state["A"].channels[1].enabled

\* C19: while locked is true the instructor controls are blocked: a channel
\* edit, a difficulty change or randomize leaves the channels and the
\* difficulty of the shared state as they are.
C19_LockedBlocksEdits ==
    [][\A t \in Tabs :
          (state[t] # None /\ state[t].locked /\ nPublish' # nPublish) =>
              /\ state'[t].channels = state[t].channels
              /\ state'[t].difficulty = state[t].difficulty]_vars

-----------------------------------------------------------------------------
(* The store: tabs opened on whatever strings localStorage holds, with     *)
(* setItem or postMessage throwing or not                                  *)

\* strings that can be found under CHANNEL_KEY: none, text that is not JSON,
\* "null", "{}", a snapshot without channels, a full snapshot
StoredSharedItems ==
    { NoItem, TextItem, JSONitem(JSNull), JSONitem(EmptyObj),
      JSONitem([locked |-> FALSE, difficulty |-> "base"]),
      JSONstringify([defaultSharedState EXCEPT !.showCorrect = TRUE]) }

\* strings that can be found under VIEW_KEY
StoredViewItems ==
    { NoItem, TextItem, JSONitem(JSNull), JSONitem(EmptyObj),
      JSONitem([vPerDiv |-> Fin(1, 1), sPerDiv |-> Fin(1, 1000),
                vOffset |-> Fin(0, 1), tOffset |-> Fin(0, 1)]) }

Faults == {"setItem", "postMessage"}

InitStore ==
    /\ phase = [t \in Tabs |-> "closed"]
    /\ route = [t \in Tabs |-> DOCENTE]
    /\ state = [t \in Tabs |-> None]
    /\ view = [t \in Tabs |-> None]
    /\ checkResult = [t \in Tabs |-> None]
    /\ inbox = [t \in Tabs |-> <<>>]
    /\ \E s \in StoredSharedItems : \E v \in StoredViewItems :
          localStorage = (CHANNEL_KEY :> s) @@ (VIEW_KEY :> v)
    /\ nPublish = 0
    /\ nPosted = 0
    /\ lastPosted = NoMsg
    /\ missed = {}
    /\ nEdits = 0
    /\ faults \in SUBSET Faults
    /\ thrown = {}
    /\ ctx = [t \in Tabs |-> freshCtx]
    /\ surface = [t \in Tabs |-> <<>>]
    /\ calls = <<>>
    /\ nDraws = 0
    /\ replaced = [t \in Tabs |-> None]

NextStore ==
    \E t \in Tabs :
        \/ \E r \in Routes : Open(t, r)
        \/ Mount(t)
        \/ Receive(t)
        \/ SetShowCorrect(t)
        \/ \E e \in ViewEdits : SetViewField(t, e[1], e[2])
        \/ DoCheck(t)

SpecStore == InitStore /\ [][NextStore]_vars

-----------------------------------------------------------------------------
(* Claims about the store, checked under SpecStore *)

\* the stored string is the JSON text of a full snapshot
WellFormedShared(item) == item.raw = "json" /\ FullSnapshot(item.val)

\* the stored string is the JSON text of a full view
WellFormedView(item) ==
    /\ item.raw = "json"
    /\ DOMAIN item.val = ViewKeys
    /\ DOMAIN item.val.measures = ChannelIds

\* C12: whatever string is stored under CHANNEL_KEY or VIEW_KEY, unparseable
\* text or JSON of the wrong shape, a tab that starts up holds the
\* compiled-in defaults in place of it and its first render does not throw
\* (in the JS version and in the TS version).
C12_MalformedStorageFallsBack ==
    [][ \A t \in Tabs :
            (phase[t] = "closed" /\ phase'[t] # "closed") =>
                /\ t \notin thrown'
                /\ ~WellFormedShared(localStorage[CHANNEL_KEY])
                      => state'[t] = defaultSharedState
                /\ route'[t] = STUDENTI =>
                      /\ ~WellFormedView(localStorage[VIEW_KEY])
                            => view'[t] = defaultView
                      /\ ~renderStudentThrowsTS(state'[t], view'[t]) ]_vars

\* C13: a throwing setItem or postMessage is silent.  In every publish the
\* publisher's state becomes the published snapshot and no exception
\* escapes; the message is posted to the listening tabs unless postMessage
\* itself throws, and the snapshot is stored unless setItem itself throws.
\* A student edit whose save throws still changes the view.
C13_FailingStoreIsSilent ==
    [][ /\ nPublish' = nPublish + 1 =>
              \E t \in Tabs :
                  /\ OnTeacherPage(t)
                  /\ lastPosted' = [type |-> "SET_STATE", payload |-> state'[t]]
                  /\ thrown' = thrown
                  /\ "postMessage" \notin faults =>
                        \A u \in Tabs \ {t} :
                            phase[u] = "mounted" => inbox'[u] = Append(inbox[u], lastPosted')
                  /\ "setItem" \notin faults =>
                        localStorage'[CHANNEL_KEY] = JSONstringify(state'[t])
        /\ nEdits' = nEdits + 1 =>
              /\ thrown' = thrown
              /\ \E t \in Tabs : view'[t] # view[t]
              /\ "setItem" \notin faults =>
                    \E t \in Tabs : localStorage'[VIEW_KEY] = JSONstringify(view'[t]) ]_vars

\* with setItem throwing, a publish has changed the publisher's state and
\* reached the other tab's queue while the store still holds the old string
C13_Witness ==
    /\ faults = {"setItem"}
    /\ nPublish = 1
    /\ thrown = {}
    /\ \E t, u \in Tabs :
          /\ state[t] = lastPosted.payload
          /\ inbox[u] = <<lastPosted>>
          /\ state[u] # state[t]
    /\ localStorage[CHANNEL_KEY] # JSONstringify(lastPosted.payload)

-----------------------------------------------------------------------------
(* The sampler on its own: waveformSample called on one of a set of        *)
(* arguments, the last two calls kept                                      *)

Streams == {"s1", "s2"}

sampleParams(amplitude, noise, difficulty) ==
    [amplitude |-> amplitude, frequency |-> Fin(1000, 1), phase |-> Fin(0, 1),
     dc |-> Fin(1, 2), difficulty |-> difficulty, noise |-> noise]

\* every waveform without noise at the base level, and a sine of positive
\* or negative amplitude with and without channel noise at every level
SampleInputs ==
    { [type |-> w, t |-> Fin(1, 4000), p |-> sampleParams(Fin(2, 1), Fin(0, 1), "base")] :
        w \in Waveforms }
    \cup
    { [type |-> "sine", t |-> Fin(1, 4000), p |-> sampleParams(a, n, d)] :
        a \in {Fin(2, 1), Fin(-4, 1)}, n \in {Fin(0, 1), Fin(1, 10)}, d \in Levels }

\* one call of waveformSample as the log keeps it
Call(in, s, k, n) ==
    LET r == waveformSample(in.type, in.t, in.p, s, k)
    IN [in |-> in, out |-> r.value, draws |-> r.draws, n |-> n]

Sample(in, s) ==
    /\ calls' = <<Call(in, s, 0, 1)>> \o (IF calls = <<>> THEN <<>> ELSE <<Head(calls)>>)
    /\ UNCHANGED <<phase, route, state, view, checkResult, inbox, localStorage,
                   nPublish, nPosted, lastPosted, missed, nEdits,
                   faults, thrown, ctx, surface, nDraws, replaced>>

\* no tab is open and no call has been made
InitSample == Init

NextSample == \E in \in SampleInputs : \E s \in Streams : Sample(in, s)

SpecSample == InitSample /\ [][NextSample]_vars

-----------------------------------------------------------------------------
(* Claims about the sampler, checked under SpecSample *)

\* a <= b, for finite a and b
Leq(a, b) == a.n * b.d <= b.n * a.d

\* a = b as numbers, for finite a and b
SameNumber(a, b) == a.n * b.d = b.n * a.d

\* the noise floor of a difficulty level: 0, 2% or 5% of the amplitude
FloorOf(level, amplitude) ==
    CASE level = "base" -> Fin(0, 1)
      [] level = "intermedio" -> Fin(2 * amplitude.n, 100 * amplitude.d)
      [] level = "avanzato" -> Fin(5 * amplitude.n, 100 * amplitude.d)

\* the standard deviation of the noise added by a call with arguments in,
\* had it been made at the given level
AppliedStd(in, level) ==
    waveformSample(in.type, in.t, [in.p EXCEPT !.difficulty = level], "s1", 0).value.noise.std

\* C15: for every configuration the sampler accepts, negative amplitude
\* included, the standard deviation of the added noise is the channel noise
\* plus the floor of the level (0, 0.02 * amplitude, 0.05 * amplitude), and
\* it does not decrease from base to intermedio to avanzato.
C15_NoiseFloorMonotone ==
    \A i \in DOMAIN calls :
        LET in == calls[i].in
        IN /\ SameNumber(calls[i].out.noise.std,
                         Add(in.p.noise, FloorOf(in.p.difficulty, in.p.amplitude)))
           /\ Leq(AppliedStd(in, "base"), AppliedStd(in, "intermedio"))
           /\ Leq(AppliedStd(in, "intermedio"), AppliedStd(in, "avanzato"))

\* C16: for each of the nine waveforms, with noise 0 at the base level, two
\* calls of the sampler with the same arguments return the same value, and
\* no call consumes a random draw.
C16_SamplerDeterministic ==
    \A i, j \in DOMAIN calls :
        (/\ calls[i].in = calls[j].in
         /\ calls[i].in.p.noise = Fin(0, 1)
         /\ calls[i].in.p.difficulty = "base")
            => calls[i].out = calls[j].out /\ calls[i].draws = 0

-----------------------------------------------------------------------------
(* ScopeCanvas: the draw effect.  A run of the effect carries g, the       *)
(* context's drawing state, the painted surface, the sampler calls made    *)
(* and the position reached in the stream of random draws.  The N points   *)
(* of a trace are kept as their number and their first and last point.     *)

MinSamplesJS == 1000
MinSamplesTS == 2000

\* ctx.<name> = v, ctx.setLineDash(v)
setProp(g, name, v) == [g EXCEPT !.ctx = [@ EXCEPT ![name] = v]]

\* clearRect: a rectangle that covers the canvas erases it
clearRect(g, x, y, w, h) ==
    IF <<x, y, w, h>> = <<0, 0, width, height>>
    THEN [g EXCEPT !.surface = <<>>]
    ELSE [g EXCEPT !.surface = Append(@, [op |-> "clearRect", rect |-> <<x, y, w, h>>])]

\* fillRect with the current fillStyle
fillRect(g, x, y, w, h) ==
    [g EXCEPT !.surface =
        Append(@, [op |-> "fillRect", rect |-> <<x, y, w, h>>, style |-> g.ctx.fillStyle])]

\* beginPath, moveTo, lineTo, stroke of one straight line from edge to edge
\* of the canvas, painted with the current stroke style, width and dash
strokeLine(g, from, to) ==
    [g EXCEPT !.surface =
        Append(@, [op |-> "stroke", kind |-> "line", from |-> from, to |-> to,
                   style |-> g.ctx.strokeStyle, width |-> g.ctx.lineWidth,
                   dash |-> g.ctx.lineDash])]

\* beginPath, one moveTo, the lineTo's and stroke of a trace, painted with
\* the current stroke style, width, dash, join and cap
strokeTrace(g, path) ==
    [g EXCEPT !.surface =
        Append(@, [op |-> "stroke", kind |-> "trace", path |-> path,
                   style |-> g.ctx.strokeStyle, width |-> g.ctx.lineWidth,
                   dash |-> g.ctx.lineDash, join |-> g.ctx.lineJoin,
                   cap |-> g.ctx.lineCap])]

\* i * dx with dx = width / divX; the TS version draws at Math.round(i * dx) + 0.5
gridX(i, divX, ts) ==
    IF ts THEN Fin(2 * ((2 * i * width + divX) \div (2 * divX)) + 1, 2)
    ELSE Fin(i * width, divX)

gridY(j, divY, ts) ==
    IF ts THEN Fin(2 * ((2 * j * height + divY) \div (2 * divY)) + 1, 2)
    ELSE Fin(j * height, divY)

\* faulty variant: the loop stops before the last line
RECURSIVE gridLinesX_OneLess(_, _, _, _)
gridLinesX_OneLess(g, i, divX, ts) ==
    IF i >= divX THEN g
    ELSE gridLinesX_OneLess(strokeLine(g, <<gridX(i, divX, ts), Fin(0, 1)>>,
                                          <<gridX(i, divX, ts), Fin(height, 1)>>),
                            i + 1, divX, ts)

\* for (let i = 0; i <= divX; i++) { beginPath; moveTo; lineTo; stroke }
RECURSIVE gridLinesX(_, _, _, _)
gridLinesX(g, i, divX, ts) ==
    IF i > divX THEN g
    ELSE gridLinesX(strokeLine(g, <<gridX(i, divX, ts), Fin(0, 1)>>,
                                  <<gridX(i, divX, ts), Fin(height, 1)>>),
                    i + 1, divX, ts)

\* for (let j = 0; j <= divY; j++) { beginPath; moveTo; lineTo; stroke }
RECURSIVE gridLinesY(_, _, _, _)
gridLinesY(g, j, divY, ts) ==
    IF j > divY THEN g
    ELSE gridLinesY(strokeLine(g, <<Fin(0, 1), gridY(j, divY, ts)>>,
                                  <<Fin(width, 1), gridY(j, divY, ts)>>),
                    j + 1, divY, ts)

\* height / 2 - ((yV - view.vOffset) / vDiv) * dy, kept as its arguments
screenY(yV, v, divY) ==
    [yV |-> yV, vOffset |-> v.vOffset, vDiv |-> v.vPerDiv, dy |-> Fin(height, divY)]

\* faulty variant: the dash pattern of the axis is left set
drawAxesJS_DashLeftSet(g, v, divY) ==
    LET g1 == setProp(setProp(g, "strokeStyle", "#334155"), "lineDash", <<6, 6>>)
    IN strokeLine(g1, <<Fin(0, 1), screenY(Fin(0, 1), v, divY)>>,
                      <<Fin(width, 1), screenY(Fin(0, 1), v, divY)>>)

\* the dashed horizontal axis
drawAxesJS(g, v, divY) ==
    LET g1 == setProp(setProp(g, "strokeStyle", "#334155"), "lineDash", <<6, 6>>)
        g2 == strokeLine(g1, <<Fin(0, 1), screenY(Fin(0, 1), v, divY)>>,
                             <<Fin(width, 1), screenY(Fin(0, 1), v, divY)>>)
    IN setProp(g2, "lineDash", <<>>)

\* the TS version: a vertical and a horizontal axis, solid
drawAxesTS(g, v, divY) ==
    LET g1 == setProp(setProp(setProp(g, "strokeStyle", "#475569"),
                              "lineWidth", Fin(3, 2)), "lineDash", <<>>)
        g2 == strokeLine(g1, <<Fin(width, 2), Fin(0, 1)>>, <<Fin(width, 2), Fin(height, 1)>>)
    IN strokeLine(g2, <<Fin(0, 1), screenY(Fin(0, 1), v, divY)>>,
                      <<Fin(width, 1), screenY(Fin(0, 1), v, divY)>>)

\* totalTime = sDiv * divX
totalTime(shared, v) == Times(v.sPerDiv, shared.durationDivs, 1)

\* N = Math.max(min, Math.floor(sampleRate * totalTime)); NaN, for which
\* the loop does not run, when the product is not a number
sampleCount(shared, v, ts) ==
    LET sr == shared.sampleRate
        tt == totalTime(shared, v)
        min == IF ts THEN MinSamplesTS ELSE MinSamplesJS
    IN IF isFinite(sr) /\ isFinite(tt)
       THEN Max(min, (sr.n * tt.n) \div (sr.d * tt.d))
       ELSE 0

\* the parameters ScopeCanvas hands to waveformSample
channelParams(ch, shared) ==
    [amplitude |-> ch.amplitude, frequency |-> ch.frequency, phase |-> ch.phase,
     dc |-> ch.dc, difficulty |-> shared.difficulty, noise |-> ch.noise]

\* a point of a trace: x and the screen position of the sample
tracePoint(x, yV, v, divY, ts) ==
    [x |-> IF ts THEN Fin(2 * x + 1, 2) ELSE Fin(x, 1),
     y |-> screenY(yV, v, divY), rounded |-> ts]

\* faulty variant: the enabled flag is not looked at
drawChannel_AllChannels(g, ch, shared, v, ts) ==
    IF FALSE THEN g
    ELSE LET g1 == setProp(g, "lineWidth", Fin(2, 1))
             g2 == IF ts THEN setProp(setProp(g1, "lineJoin", "round"), "lineCap", "round")
                   ELSE g1
             g3 == setProp(g2, "strokeStyle", ch.color)
             N == sampleCount(shared, v, ts)
             p == channelParams(ch, shared)
             t0 == v.tOffset
             tN == Add(totalTime(shared, v), v.tOffset)
             first == waveformSample(ch.waveform, t0, p, g.s, g.k)
             last == waveformSample(ch.waveform, tN, p, g.s, g.k + (N - 1) * first.draws)
             path == [moves |-> IF N > 0 THEN 1 ELSE 0,
                      lines |-> IF N > 0 THEN N - 1 ELSE 0,
                      first |-> tracePoint(0, first.value, v, shared.verticalDivs, ts),
                      last |-> tracePoint(width, last.value, v, shared.verticalDivs, ts)]
             g4 == strokeTrace(g3, path)
         IN [g4 EXCEPT
                !.calls = Append(@, Call([type |-> ch.waveform, t |-> t0, p |-> p],
                                         g.s, g.k, N)),
                !.k = g.k + N * first.draws]

\* the body of shared.channels.forEach
drawChannel(g, ch, shared, v, ts) ==
    IF ~ch.enabled THEN g
    ELSE LET g1 == setProp(g, "lineWidth", Fin(2, 1))
             g2 == IF ts THEN setProp(setProp(g1, "lineJoin", "round"), "lineCap", "round")
                   ELSE g1
             g3 == setProp(g2, "strokeStyle", ch.color)
             N == sampleCount(shared, v, ts)
             p == channelParams(ch, shared)
             t0 == v.tOffset
             tN == Add(totalTime(shared, v), v.tOffset)
             first == waveformSample(ch.waveform, t0, p, g.s, g.k)
             last == waveformSample(ch.waveform, tN, p, g.s, g.k + (N - 1) * first.draws)
             path == [moves |-> IF N > 0 THEN 1 ELSE 0,
                      lines |-> IF N > 0 THEN N - 1 ELSE 0,
                      first |-> tracePoint(0, first.value, v, shared.verticalDivs, ts),
                      last |-> tracePoint(width, last.value, v, shared.verticalDivs, ts)]
             g4 == strokeTrace(g3, path)
         IN [g4 EXCEPT
                !.calls = Append(@, Call([type |-> ch.waveform, t |-> t0, p |-> p],
                                         g.s, g.k, N)),
                !.k = g.k + N * first.draws]

RECURSIVE drawChannels(_, _, _, _, _)
drawChannels(g, i, shared, v, ts) ==
    IF i > Len(shared.channels) THEN g
    ELSE drawChannels(drawChannel(g, shared.channels[i], shared, v, ts),
                      i + 1, shared, v, ts)

\* the draw effect of ScopeCanvas
drawEffect(g, shared, v, ts) ==
    LET divX == shared.durationDivs
        divY == shared.verticalDivs
        g1 == clearRect(g, 0, 0, width, height)
        g2 == fillRect(setProp(g1, "fillStyle", "#0b1020"), 0, 0, width, height)
        g3 == setProp(setProp(g2, "strokeStyle", "#1f2a44"), "lineWidth", Fin(1, 1))
        g4 == gridLinesY(gridLinesX(g3, 0, divX, ts), 0, divY, ts)
        g5 == IF ts THEN drawAxesTS(g4, v, divY) ELSE drawAxesJS(g4, v, divY)
    IN drawChannels(g5, 1, shared, v, ts)

\* the view the page hands to its ScopeCanvas
scopeView(t) ==
    IF route[t] = STUDENTI THEN view[t]
    ELSE [vPerDiv |-> Fin(1, 1), sPerDiv |-> state[t].timeBase,
          vOffset |-> Fin(0, 1), tOffset |-> Fin(0, 1)]

\* a run of the effect on tab t's canvas, reading the random stream s
runDraw(t, ts, s) ==
    drawEffect([ctx |-> [ctx[t] EXCEPT !.impl = IF ts THEN "ts" ELSE "js"],
                surface |-> surface[t], calls |-> <<>>, s |-> s, k |-> 0],
               state[t], scopeView(t), ts)

\* the effect of the JS version's ScopeCanvas
DrawJS(t) ==
    /\ phase[t] = "mounted"
    /\ ctx[t].impl \in {"none", "js"}
    /\ nDraws < MaxDraws
    /\ nDraws' = nDraws + 1
    /\ \E s \in Streams :
          /\ ctx' = [ctx EXCEPT ![t] = runDraw(t, FALSE, s).ctx]
          /\ surface' = [surface EXCEPT ![t] = runDraw(t, FALSE, s).surface]
          /\ calls' = runDraw(t, FALSE, s).calls
    /\ UNCHANGED <<phase, route, state, view, checkResult, inbox, localStorage,
                   nPublish, nPosted, lastPosted, missed, nEdits, faults, thrown,
                   replaced>>

\* the effect of the TS version's ScopeCanvas
DrawTS(t) ==
    /\ phase[t] = "mounted"
    /\ ctx[t].impl \in {"none", "ts"}
    /\ nDraws < MaxDraws
    /\ nDraws' = nDraws + 1
    /\ \E s \in Streams :
          /\ ctx' = [ctx EXCEPT ![t] = runDraw(t, TRUE, s).ctx]
          /\ surface' = [surface EXCEPT ![t] = runDraw(t, TRUE, s).surface]
          /\ calls' = runDraw(t, TRUE, s).calls
    /\ UNCHANGED <<phase, route, state, view, checkResult, inbox, localStorage,
                   nPublish, nPosted, lastPosted, missed, nEdits, faults, thrown,
                   replaced>>

\* settings on display when the two pages are first looked at
ScopeShareds ==
    LET d == defaultSharedState.channels
    IN { defaultSharedState,
         [defaultSharedState EXCEPT !.channels =
            << d[1],
               withChannel(d[2], TRUE, "square", Fin(-1, 1), Fin(500, 1), Fin(1, 1)),
               withChannel(d[3], TRUE, "noise", Fin(15, 10), Fin(200, 1), Fin(0, 1)) >>] }

\* tab A shows the instructor page and tab B the student page
InitScope ==
    /\ phase = [t \in Tabs |-> "mounted"]
    /\ route = [t \in Tabs |-> IF t = "A" THEN DOCENTE ELSE STUDENTI]
    /\ \E shared \in ScopeShareds :
          /\ state = [t \in Tabs |-> shared]
          /\ localStorage = (CHANNEL_KEY :> JSONstringify(shared))
                            @@ (VIEW_KEY :> JSONstringify(defaultView))
    /\ view = [t \in Tabs |-> IF t = "A" THEN None ELSE defaultView]
    /\ checkResult = [t \in Tabs |-> None]
    /\ inbox = [t \in Tabs |-> <<>>]
    /\ nPublish = 0
    /\ nPosted = 0
    /\ lastPosted = NoMsg
    /\ missed = {}
    /\ nEdits = 0
    /\ faults = {}
    /\ thrown = {}
    /\ ctx = [t \in Tabs |-> freshCtx]
    /\ surface = [t \in Tabs |-> <<>>]
    /\ calls = <<>>
    /\ nDraws = 0
    /\ replaced = [t \in Tabs |-> None]

\* the instructor's changes while the student's canvas is watched
ScopeEdits == { <<2, "enabled", TRUE>>, <<2, "enabled", FALSE>>, <<1, "enabled", FALSE>> }
ScopeLevels == {"base", "avanzato"}

NextScope ==
    \/ \E e \in ScopeEdits : SetChannel("A", e[1], e[2], e[3])
    \/ \E level \in ScopeLevels : SetDifficulty("A", level)
    \/ Receive("B")
    \/ \E e \in ViewEdits : SetViewField("B", e[1], e[2])
    \/ DrawJS("B")
    \/ DrawTS("B")

SpecScope == InitScope /\ [][NextScope]_vars

-----------------------------------------------------------------------------
(* Claims about the canvas, checked under SpecScope *)

\* the step is a run of the draw effect on tab B's canvas
DrawStep == nDraws' = nDraws + 1

Painted == surface'["B"]

IsTrace(c) == c.op = "stroke" /\ c.kind = "trace"
IsGridLine(c) == c.op = "stroke" /\ c.kind = "line" /\ c.style = "#1f2a44"

Traces == SelectSeq(Painted, IsTrace)
EnabledSeq == SelectSeq(state["B"].channels, LAMBDA ch : ch.enabled)
DisabledSet == {i \in 1..3 : ~state["B"].channels[i].enabled}

VerticalGridLines == SelectSeq(Painted, LAMBDA c : IsGridLine(c) /\ c.from[1] = c.to[1])
HorizontalGridLines == SelectSeq(Painted, LAMBDA c : IsGridLine(c) /\ c.from[2] = c.to[2])

\* C17: in every render a disabled channel causes no sampler call and no
\* moveTo, lineTo or stroke: the traces painted are those of the enabled
\* channels, one each and in their order, each with one moveTo and one
\* lineTo for every further sample, and the sampler is called for the
\* enabled channels only.
C17_DisabledChannelDrawsNothing ==
    [][ DrawStep =>
          /\ Len(Traces) = Len(EnabledSeq)
          /\ Len(calls') = Len(EnabledSeq)
          /\ \A i \in DOMAIN EnabledSeq :
                /\ Traces[i].style = EnabledSeq[i].color
                /\ Traces[i].path.moves = 1
                /\ Traces[i].path.lines = calls'[i].n - 1
                /\ calls'[i].in.type = EnabledSeq[i].waveform
                /\ calls'[i].in.p = channelParams(EnabledSeq[i], state["B"])
          /\ \A i \in DisabledSet :
                \A j \in DOMAIN Traces :
                    Traces[j].style # state["B"].channels[i].color ]_vars

\* the canvas shows two traces while a channel is disabled
C17_Witness ==
    /\ nDraws > 0
    /\ Len(SelectSeq(surface["B"], IsTrace)) = 2
    /\ Len(calls) = 2
    /\ Cardinality({i \in 1..3 : state["B"].channels[i].enabled}) = 2

\* every enabled channel is free of noise: not the noise waveform, no
\* channel noise and the base level
NoiseFree ==
    \A i \in 1..3 :
        LET ch == state["B"].channels[i]
        IN ch.enabled =>
              /\ ch.waveform # "noise"
              /\ ch.noise = Fin(0, 1)
              /\ state["B"].difficulty = "base"

\* what the effect paints on a canvas nothing has drawn on
FirstRender ==
    drawEffect([ctx |-> [freshCtx EXCEPT !.impl = ctx'["B"].impl], surface |-> <<>>,
                calls |-> <<>>, s |-> "s1", k |-> 0],
               state["B"], scopeView("B"), ctx'["B"].impl = "ts").surface

\* C18: re-rendering accumulates nothing.  Every render starts by clearing
\* and repainting the whole surface, so what is painted after a render is
\* the background followed by that render's strokes only, and, with
\* noise-free channels, it is what a first render with the current
\* SharedSettings and ViewSettings paints, whatever was rendered before.
C18_RenderIdempotent ==
    [][ DrawStep =>
          /\ Painted[1] = [op |-> "fillRect", rect |-> <<0, 0, width, height>>,
                           style |-> "#0b1020"]
          /\ \A i \in 2..Len(Painted) : Painted[i].op = "stroke"
          /\ NoiseFree => Painted = FirstRender ]_vars

\* the canvas has been rendered twice, the second time with other settings
\* than those the tab started with
C18_Witness ==
    /\ nDraws = 2
    /\ state["B"] \notin ScopeShareds
    /\ \A i \in 1..3 : state["B"].channels[i].enabled =>
                          state["B"].channels[i].waveform # "noise"
    /\ state["B"].difficulty = "base"
    /\ Len(SelectSeq(surface["B"], IsTrace))
          = Cardinality({i \in 1..3 : state["B"].channels[i].enabled})

IsAxisLine(c) == c.op = "stroke" /\ c.kind = "line" /\ c.style # "#1f2a44"

\* x is the number W / 2
AtHalfWidth(x) == x.k = "fin" /\ 2 * x.n = width * x.d

\* C21: every render draws the central vertical axis, a line from top to
\* bottom at x = W/2, whatever the shared settings and the view are.
C21_VerticalAxisAtHalfWidth ==
    [][ DrawStep =>
          \E i \in DOMAIN Painted :
              /\ IsAxisLine(Painted[i])
              /\ AtHalfWidth(Painted[i].from[1])
              /\ AtHalfWidth(Painted[i].to[1])
              /\ Painted[i].from[2] = Fin(0, 1)
              /\ Painted[i].to[2] = Fin(height, 1) ]_vars

-----------------------------------------------------------------------------
(* Further claims about the shared state, checked under Spec *)

\* the step in which tab t is opened
Opens(t) == phase[t] = "closed" /\ phase'[t] # "closed"

\* C22: a tab opened at any moment initialises its SharedSettings from the
\* snapshot stored under CHANNEL_KEY, the defaults if none is stored, and a
\* tab that was between its read of localStorage and the installation of its
\* BroadcastChannel handler during a publish of another tab still ends up,
\* once its handler is installed and every sent message is delivered, with
\* the latest published snapshot.
C22_LateTabCatchesUp ==
    /\ [][ \A t \in Tabs :
              Opens(t) =>
                  state'[t] = IF localStorage[CHANNEL_KEY] = NoItem
                              THEN defaultSharedState
                              ELSE localStorage[CHANNEL_KEY].val ]_vars
    /\ []((nPublish > 0 /\ Quiescent) =>
             \A t \in Tabs :
                 (phase[t] = "mounted" /\ t \in missed) => state[t] = lastPosted.payload)

-----------------------------------------------------------------------------
(* The "osc-sim" channel on its own: an instructor tab and a student tab,  *)
(* both listening, and messages that other pages of the origin post on the *)
(* channel                                                                 *)

MaxInbox == 2

\* ev.data of a message that is not the application's: another type with a
\* payload, and no data at all (ev?.data?.type is undefined)
OtherMessages ==
    { [type |-> "RESET", payload |-> defaultSharedState], NoMsg }

\* a page of the same origin posts msg on the channel: it is queued for
\* every tab whose channel is open
PostOther(msg) ==
    /\ \A t \in Tabs : Len(inbox[t]) < MaxInbox
    /\ inbox' = [t \in Tabs |-> IF phase[t] = "mounted" THEN Append(inbox[t], msg)
                                ELSE inbox[t]]
    /\ UNCHANGED <<phase, route, state, view, checkResult, localStorage,
                   nPublish, nPosted, lastPosted, missed, nEdits>>
    /\ UNCHANGED <<faults, thrown, scopeVars, replaced>>

InitBus == InitScope

NextBus ==
    \/ \E idx \in 1..3 : \E e \in ChannelEdits : SetChannel("A", idx, e[1], e[2])
    \/ SetShowCorrect("A")
    \/ \E t \in Tabs : Receive(t)
    \/ \E msg \in OtherMessages : PostOther(msg)

SpecBus == InitBus /\ [][NextBus]_vars

-----------------------------------------------------------------------------
(* Claims about onmessage, checked under SpecBus *)

\* the step in which tab t handles the message at the head of its queue
Handles(t) == inbox[t] # <<>> /\ inbox'[t] = Tail(inbox[t])

\* C23: handling a received message only replaces the tab's SharedSettings
\* by the payload when the message is a SET_STATE, and leaves them unchanged
\* for a message of any other type; it posts no message and writes nothing
\* to localStorage, so the number of messages the tabs have sent always
\* equals the number of publish calls.
C23_ReceiveOnlySetsState ==
    /\ [][ \A t \in Tabs :
              Handles(t) =>
                  /\ state'[t] = IF Head(inbox[t]).type = "SET_STATE"
                                 THEN Head(inbox[t]).payload
                                 ELSE state[t]
                  /\ \A u \in Tabs \ {t} : state'[u] = state[u] /\ inbox'[u] = inbox[u]
                  /\ localStorage' = localStorage
                  /\ nPosted' = nPosted
                  /\ nPublish' = nPublish
                  /\ view' = view /\ checkResult' = checkResult ]_vars
    /\ [](nPosted = nPublish)

\* the student tab has handled both a published snapshot and a message of
\* another type, which the instructor tab has still to handle
C23_Witness ==
    /\ nPublish > 0
    /\ inbox["B"] = <<>>
    /\ inbox["A"] # <<>>
    /\ state["B"] = lastPosted.payload
    /\ state["B"] \notin ScopeShareds

-----------------------------------------------------------------------------
(* Claims about the instructor's edits, checked under SpecBus *)

\* the step in which tab t publishes a snapshot with other channels
EditsChannel(t) ==
    /\ nPublish' = nPublish + 1
    /\ lastPosted'.payload = state'[t]
    /\ state'[t].channels # state[t].channels

OtherFields == {"locked", "difficulty", "showCorrect", "timeBase", "sampleRate",
                "durationDivs", "verticalDivs"}

\* C24: an instructor edit of channel i replaces only channels[i] in the
\* published snapshot: the other two channels and every other field of the
\* SharedSettings are those of the snapshot the tab held when the edit was
\* made, and that snapshot is left as it was.
C24_EditReplacesOneChannel ==
    [][ \A t \in Tabs :
            EditsChannel(t) =>
                /\ DOMAIN state'[t] = {"channels"} \cup OtherFields
                /\ \A f \in OtherFields : state'[t][f] = state[t][f]
                /\ DOMAIN state'[t].channels = 1..3
                /\ \E i \in 1..3 :
                      /\ state'[t].channels[i] # state[t].channels[i]
                      /\ \A j \in (1..3) \ {i} :
                            state'[t].channels[j] = state[t].channels[j]
                /\ localStorage'[CHANNEL_KEY] = JSONstringify(state'[t])
                /\ replaced'[t] = state[t] ]_vars

\* a channel has been edited after showCorrect was switched on: the
\* published snapshot still has it on, and the snapshot replaced is there
C24_Witness ==
    /\ nPublish = 2
    /\ replaced["A"] # None
    /\ replaced["A"].showCorrect
    /\ state["A"].showCorrect
    /\ state["A"].channels # replaced["A"].channels
    /\ lastPosted.payload = state["A"]

-----------------------------------------------------------------------------
(* The score of the TS version's checker on its own: a student tab holding *)
(* one of a set of published settings, identity fields and measurements,   *)
(* one more entry typed, then doCheck                                      *)

\* the identity fields as a student can have left them
ScoreIdentities ==
    { [name |-> "", surname |-> "", class |-> "", date |-> ""],
      [name |-> "Ada", surname |-> "Rossi", class |-> "4A", date |-> ""],
      [name |-> "Ada", surname |-> "Rossi", class |-> "4A", date |-> "2025-01-31"] }

ScoreViews(shared) ==
    { [v EXCEPT !.name = who.name, !.surname = who.surname,
                !.class = who.class, !.date = who.date] :
        v \in CheckViews(shared), who \in ScoreIdentities }

\* entries typed into the field whose reference value is c: a text, and the
\* value 5.1% off
ScoreEntries(c) == { TextStr, String(Scaled(c, 1051)) }

InitScore ==
    /\ phase = [t \in Tabs |-> IF t = "A" THEN "mounted" ELSE "closed"]
    /\ route = [t \in Tabs |-> IF t = "A" THEN STUDENTI ELSE DOCENTE]
    /\ \E shared \in CheckShareds : \E v \in ScoreViews(shared) :
          /\ state = [t \in Tabs |-> IF t = "A" THEN shared ELSE None]
          /\ view = [t \in Tabs |-> IF t = "A" THEN v ELSE None]
          /\ localStorage = (CHANNEL_KEY :> JSONstringify(shared))
                            @@ (VIEW_KEY :> JSONstringify(v))
    /\ checkResult = [t \in Tabs |-> None]
    /\ inbox = [t \in Tabs |-> <<>>]
    /\ nPublish = 0
    /\ nPosted = 0
    /\ lastPosted = NoMsg
    /\ missed = {}
    /\ nEdits = 0
    /\ faults = {}
    /\ thrown = {}
    /\ ctx = [t \in Tabs |-> freshCtx]
    /\ surface = [t \in Tabs |-> <<>>]
    /\ calls = <<>>
    /\ nDraws = 0
    /\ replaced = [t \in Tabs |-> None]

TypeScoreEntry ==
    /\ checkResult["A"] = None
    /\ \E id \in ChannelIds : \E k \in FieldSet :
          \E v \in ScoreEntries(referenceOf(channelOf(state["A"], id), FALSE)[k]) :
              SetMeasure("A", id, k, v)

NextScore == TypeScoreEntry \/ RunCheckTS

SpecScore == InitScore /\ [][NextScore]_vars

-----------------------------------------------------------------------------
(* Claims about the score, checked under SpecScore *)

RECURSIVE CountFailed(_)
CountFailed(chans) ==
    IF chans = {} THEN 0
    ELSE LET i == CHOOSE x \in chans : TRUE
         IN Cardinality(FailedFields(i, FALSE)) + CountFailed(chans \ {i})

\* the number of failed fields over all enabled channels
TotalErrors == CountFailed(EnabledChannels)

\* ceil(n / 2): the least h with 2 * h >= n
CeilHalf(n) == CHOOSE h \in 0..n : 2 * h >= n /\ (h = 0 \/ 2 * (h - 1) < n)

IdentityMissing == \E f \in {"name", "surname", "class", "date"} : view["A"][f] = ""

\* C25: the score of the TS version is an integer in 4..10: it is
\* 10 - min(5, ceil(totalErrors / 2)), less 1 when one of name, surname,
\* class and date is empty, totalErrors being the number of failed fields
\* over all enabled channels; it is 10 only when no field fails and no
\* identity field is empty.
C25_ScoreRange ==
    IsTS =>
        LET half == CeilHalf(TotalErrors)
            capped == IF half > 5 THEN 5 ELSE half
        IN /\ Result.punteggio \in 4..10
           /\ Result.punteggio = 10 - capped - (IF IdentityMissing THEN 1 ELSE 0)
           /\ Result.erroriCount = TotalErrors
           /\ Result.punteggio = 10 => (TotalErrors = 0 /\ ~IdentityMissing)

\* three fields of two channels fail with the identity complete: score 8
C25_Witness ==
    /\ IsTS
    /\ ~IdentityMissing
    /\ TotalErrors = 3
    /\ Result.punteggio = 8
    /\ Cardinality({i \in EnabledChannels : FailedFields(i, FALSE) # {}}) = 2

-----------------------------------------------------------------------------
(* Claims about the stored check result, checked under Spec *)

\* the step in which tab t runs doCheck: nothing but its result is set
RunsCheck(t) ==
    /\ OnStudentPage(t)
    /\ state' = state /\ view' = view /\ inbox' = inbox /\ localStorage' = localStorage
    /\ checkResult'[t] = doCheckJS(state[t], view[t])

\* C26: the stored check result changes only when doCheck runs: an edit of a
\* measurement or of a view control and the receipt of a snapshot leave it
\* unchanged, and the verdict on display after such a change is the one
\* computed by the last doCheck from the settings and measurements of that
\* time.
C26_ResultChangesOnlyOnCheck ==
    [][ \A t \in Tabs :
          /\ checkResult'[t] # checkResult[t] => RunsCheck(t)
          /\ (phase[t] = "mounted" /\ (view'[t] # view[t] \/ state'[t] # state[t])) =>
                /\ checkResult'[t] = checkResult[t]
                /\ (state'[t].showCorrect /\ checkResult[t] # None) =>
                      verdictShown(state'[t], checkResult'[t])
                         = [ok |-> checkResult[t].ok,
                            perChannel |-> [id \in DOMAIN checkResult[t].perChannel |->
                                               checkResult[t].perChannel[id].ok]] ]_vars

\* a verdict is on display that is not the verdict of the settings and
\* measurements the tab holds now
C26_Witness ==
    \E t \in Tabs :
        /\ OnStudentPage(t)
        /\ checkResult[t] # None
        /\ verdictShown(state[t], checkResult[t]) # None
        /\ checkResult[t].ok # doCheckJS(state[t], view[t]).ok

====
